---- MODULE Spec2Model ----
(***************************************************************************)
(* Model of src/server.js (hydro-search): the lessons and orders           *)
(* collections of the store, and the POST /api/orders handler, one step    *)
(* per store operation the handler awaits.  Identifiers in requests are    *)
(* well-formed ObjectId strings in the canonical form toString() yields.   *)
(***************************************************************************)
EXTENDS Integers, Sequences, FiniteSets

\* ------------------------------------------------------------------ bounds
MaxCap == 2          \* largest initial availableInventory of a lesson
MaxLen == 3          \* longest lessonIDs array of a lone request
ConcLen == 2         \* longest lessonIDs array of a concurrent request
ConcCap == 1         \* largest initial availableInventory under failure-free concurrency

\* ------------------------------------------------------------ the universe
Calls == {"c1", "c2"}               \* in-flight invocations of the handler
StoredIds == {"a", "b"}             \* id strings of the documents in lessons
UnknownId == "x"                    \* a well-formed id of no document
IdStrings == StoredIds \cup {UnknownId}

\* new ObjectId(id) and ObjectId.toString()
ObjectId(s) == [oid |-> s]
toString(o) == o.oid

\* the title each seeded document carries
TitleOf(s) == CASE s = "a" -> "French" [] s = "b" -> "Spanish"

\* ------------------------------------------------------- request bodies
\* A JSON field of the body: absent (undefined) or a value of its type.
NoString == [defined |-> FALSE, val |-> ""]
String(s) == [defined |-> TRUE, val |-> s]
NoNumber == [defined |-> FALSE, val |-> 0]
Number(n) == [defined |-> TRUE, val |-> n]
NoArray == [defined |-> FALSE, val |-> <<>>]
Array(a) == [defined |-> TRUE, val |-> a]

\* JavaScript's !x: undefined, "" and 0 are falsy, every array is truthy.
FalsyString(f) == ~f.defined \/ f.val = ""
FalsyNumber(f) == ~f.defined \/ f.val = 0
FalsyArray(f) == ~f.defined

SeqsUpTo(S, n) == UNION {[1..k -> S] : k \in 0..n}

CustomerFields == {"name", "phoneNumber", "address", "city", "state", "zip"}
StringValues == {NoString, String(""), String("v")}

\* customer fields with at most one of them absent or empty
Customers ==
  {c \in [CustomerFields -> StringValues] :
     Cardinality({f \in CustomerFields : c[f] # String("v")}) <= 1}

GoodCustomer == [f \in CustomerFields |-> String("v")]

Body(c, ids, n) ==
  [name |-> c["name"], phoneNumber |-> c["phoneNumber"], address |-> c["address"],
   city |-> c["city"], state |-> c["state"], zip |-> c["zip"],
   lessonIDs |-> ids, numberOfSpaces |-> n]

\* the bodies a lone request is drawn from: every lessonIDs and numberOfSpaces
\* with the customer fields given, and a few of them with one field missing
Requests ==
  {Body(GoodCustomer, ids, n) :
     ids \in {NoArray} \cup {Array(s) : s \in SeqsUpTo(IdStrings, MaxLen)},
     n \in {NoNumber} \cup {Number(k) : k \in 0..MaxLen}}
  \cup
  {Body(c, ids, n) :
     c \in Customers,
     ids \in {NoArray, Array(<<>>), Array(<<"a">>), Array(<<"a", "b">>)},
     n \in {NoNumber, Number(0), Number(1)}}

\* the bodies concurrent requests are drawn from
ConcRequests ==
  {Body(GoodCustomer, Array(s), Number(Len(s) + 1)) : s \in SeqsUpTo(IdStrings, ConcLen)}

NoBody == Body([f \in CustomerFields |-> NoString], NoArray, NoNumber)

\* ------------------------------------------------------------------ state
VARIABLES
  lessons,   \* lessonsCollection: ObjectId -> document
  orders,    \* ordersCollection: the inserted documents, in insertion order
  pc,        \* per invocation: the store operation it awaits
  req,       \* per invocation: req.body
  found,     \* per invocation: the array `lessons` the find returned
  idx,       \* per invocation: position of the second loop in `lessons`
  resp,      \* per invocation: the response sent
  pre,       \* per invocation: the store as it was when the request arrived
  searches,  \* the last GET /api/search exchange and, if nothing changed the
             \* catalog since and it had the same q, the one before it
  put        \* the last PUT /api/lessons/:id exchange

vars == <<lessons, orders, pc, req, found, idx, resp, pre, searches, put>>

NoResp == [status |-> 0, error |-> "", orderId |-> 0]

\* the body of a PUT: the fields it sets
NoFields == [title |-> NoString, availableInventory |-> NoNumber]
NoPut == [id |-> "", fields |-> NoFields, status |-> 0]

Init ==
  /\ lessons \in {[o \in {ObjectId(s) : s \in StoredIds} |->
                     [title |-> TitleOf(toString(o)), availableInventory |-> cap[toString(o)]]] :
                  cap \in [StoredIds -> 0..MaxCap]}
  /\ orders = <<>>
  /\ pc = [c \in Calls |-> "idle"]
  /\ req = [c \in Calls |-> NoBody]
  /\ found = [c \in Calls |-> <<>>]
  /\ idx = [c \in Calls |-> 0]
  /\ resp = [c \in Calls |-> NoResp]
  /\ pre = [c \in Calls |-> [lessons |-> lessons, orders |-> 0]]
  /\ searches = <<>>
  /\ put = NoPut

\* ------------------------------------------------- the handler's local code
\* line 97: the request is rejected when any of the eight fields is falsy
MissingField(b) ==
  \/ FalsyString(b.name) \/ FalsyString(b.phoneNumber) \/ FalsyString(b.address)
  \/ FalsyString(b.city) \/ FalsyString(b.state) \/ FalsyString(b.zip)
  \/ FalsyArray(b.lessonIDs) \/ FalsyNumber(b.numberOfSpaces)

\* line 103 storing 1 at every occurrence instead of adding 1
CountOneOverwrite(m, id) ==
  IF \E i \in 1..Len(m) : m[i].id = id
    THEN m
    ELSE Append(m, [id |-> id, n |-> 1])

\* lessonCountMap[id] = (lessonCountMap[id] || 0) + 1: the object is kept as the
\* sequence of its entries, in the insertion order Object.keys enumerates
CountOne(m, id) ==
  IF \E i \in 1..Len(m) : m[i].id = id
    THEN [i \in 1..Len(m) |-> IF m[i].id = id THEN [m[i] EXCEPT !.n = @ + 1] ELSE m[i]]
    ELSE Append(m, [id |-> id, n |-> 1])

RECURSIVE CountAll(_, _)
CountAll(m, ids) ==
  IF ids = <<>> THEN m ELSE CountAll(CountOne(m, Head(ids)), Tail(ids))

lessonCountMap(ids) == CountAll(<<>>, ids)

\* lessonCountMap[key] for a key the map holds
Lookup(m, key) == (CHOOSE e \in {m[i] : i \in 1..Len(m)} : e.id = key).n

\* Object.keys(lessonCountMap).map(id => new ObjectId(id))
objectIds(m) == [i \in 1..Len(m) |-> ObjectId(m[i].id)]

\* lessonCountMap[lesson._id.toString()]
needed(c, lesson) == Lookup(lessonCountMap(req[c].lessonIDs.val), toString(lesson._id))

\* the test of line 111 off by one
NotEnoughOffByOne(lesson, n) == lesson.availableInventory + 1 < n

\* line 111: the test of the availability loop
NotEnough(lesson, n) == lesson.availableInventory < n

\* lines 109-116: some lesson of the array fails the test
Rejected(c, ls) == \E i \in 1..Len(ls) : NotEnough(ls[i], needed(c, ls[i]))

\* the update of line 121 taking one unit whatever was requested
IncAmountOne(n) == -1

\* line 121: the update document's $inc amount
IncAmount(n) == -n

\* line 127 pushing each lesson's title once
RECURSIVE RepeatOnce(_, _)
RepeatOnce(t, n) == IF n = 0 THEN <<>> ELSE <<t>>

\* lines 124-128: each lesson's title, repeated as often as it was requested
RECURSIVE Repeat(_, _)
Repeat(t, n) == IF n = 0 THEN <<>> ELSE <<t>> \o Repeat(t, n - 1)

RECURSIVE NamesFrom(_, _, _)
NamesFrom(c, ls, i) ==
  IF i > Len(ls) THEN <<>>
  ELSE Repeat(ls[i].title, needed(c, ls[i])) \o NamesFrom(c, ls, i + 1)

lessonNames(c) == NamesFrom(c, found[c], 1)

\* lines 130-141: the order document (createdAt left out)
order(c) ==
  [name |-> req[c].name.val, phoneNumber |-> req[c].phoneNumber.val,
   address |-> req[c].address.val, city |-> req[c].city.val,
   state |-> req[c].state.val, zip |-> req[c].zip.val,
   lessonIDs |-> objectIds(lessonCountMap(req[c].lessonIDs.val)),
   lessonNames |-> lessonNames(c),
   numberOfSpaces |-> req[c].numberOfSpaces.val]

\* ------------------------------------------------------ store operations
\* find({_id: {$in: ids}}).toArray(): the matching documents, in an order the
\* store chooses
Matching(ids) ==
  {[_id |-> o, title |-> lessons[o].title,
    availableInventory |-> lessons[o].availableInventory] :
     o \in {ids[i] : i \in 1..Len(ids)} \cap DOMAIN lessons}

Orderings(S) ==
  {s \in [1..Cardinality(S) -> S] : \A i, j \in 1..Cardinality(S) : s[i] = s[j] => i = j}

\* updateOne({_id}, {$inc: {availableInventory: d}})
Inc(ls, o, d) ==
  [ls EXCEPT ![o].availableInventory = @ + d]

\* ------------------------------------------------------------- the handler
Reply(c, status, error) ==
  /\ resp' = [resp EXCEPT ![c] = [status |-> status, error |-> error, orderId |-> 0]]
  /\ pc' = [pc EXCEPT ![c] = "done"]

\* lines 93-106: a request arrives; it is rejected, or the find is issued
Begin(c, b) ==
  /\ pc[c] = "idle"
  /\ req' = [req EXCEPT ![c] = b]
  /\ pre' = [pre EXCEPT ![c] = [lessons |-> lessons, orders |-> Len(orders)]]
  /\ IF MissingField(b)
       THEN Reply(c, 400, "All fields are required.")
       ELSE pc' = [pc EXCEPT ![c] = "find"] /\ UNCHANGED resp
  /\ UNCHANGED <<lessons, orders, found, idx, searches, put>>

\* lines 106-119: the find returns; the availability loop runs on its result
Find(c) ==
  /\ pc[c] = "find"
  /\ \E ls \in Orderings(Matching(objectIds(lessonCountMap(req[c].lessonIDs.val)))) :
       /\ found' = [found EXCEPT ![c] = ls]
       /\ IF Rejected(c, ls)
            THEN Reply(c, 400, "Not enough spaces") /\ UNCHANGED idx
            ELSE /\ pc' = [pc EXCEPT ![c] = IF ls = <<>> THEN "insert" ELSE "update"]
                 /\ idx' = [idx EXCEPT ![c] = 1]
                 /\ UNCHANGED resp
  /\ UNCHANGED <<lessons, orders, req, pre, searches, put>>

\* line 121 writing the value computed from the array the find returned
UpdateStale(c) ==
  /\ pc[c] = "update"
  /\ LET lesson == found[c][idx[c]] IN
       lessons' = [lessons EXCEPT ![lesson._id].availableInventory =
                     lesson.availableInventory - needed(c, lesson)]
  /\ idx' = [idx EXCEPT ![c] = @ + 1]
  /\ pc' = [pc EXCEPT ![c] = IF idx[c] = Len(found[c]) THEN "insert" ELSE "update"]
  /\ UNCHANGED <<orders, req, found, resp, pre, searches, put>>

\* the loop of lines 119-122 left after its first updateOne
UpdateOnce(c) ==
  /\ pc[c] = "update"
  /\ LET lesson == found[c][idx[c]] IN
       lessons' = Inc(lessons, lesson._id, IncAmount(needed(c, lesson)))
  /\ idx' = [idx EXCEPT ![c] = @ + 1]
  /\ pc' = [pc EXCEPT ![c] = "insert"]
  /\ UNCHANGED <<orders, req, found, resp, pre, searches, put>>

\* lines 119-122: one updateOne of the second loop is applied by the store
Update(c) ==
  /\ pc[c] = "update"
  /\ LET lesson == found[c][idx[c]] IN
       lessons' = Inc(lessons, lesson._id, IncAmount(needed(c, lesson)))
  /\ idx' = [idx EXCEPT ![c] = @ + 1]
  /\ pc' = [pc EXCEPT ![c] = IF idx[c] = Len(found[c]) THEN "insert" ELSE "update"]
  /\ UNCHANGED <<orders, req, found, resp, pre, searches, put>>

\* line 143 skipped when an equal order document is already stored
InsertUnlessDuplicate(c) ==
  /\ pc[c] = "insert"
  /\ orders' = IF \E k \in 1..Len(orders) : orders[k] = order(c)
                 THEN orders ELSE Append(orders, order(c))
  /\ resp' = [resp EXCEPT ![c] = [status |-> 200,
                                  error |-> "", orderId |-> Len(orders')]]
  /\ pc' = [pc EXCEPT ![c] = "done"]
  /\ UNCHANGED <<lessons, req, found, idx, pre, searches, put>>

\* lines 124-148: the order is inserted and the success response sent
Insert(c) ==
  /\ pc[c] = "insert"
  /\ orders' = Append(orders, order(c))
  /\ resp' = [resp EXCEPT ![c] = [status |-> 200,
                                  error |-> "", orderId |-> Len(orders) + 1]]
  /\ pc' = [pc EXCEPT ![c] = "done"]
  /\ UNCHANGED <<lessons, req, found, idx, pre, searches, put>>

\* lines 149-151: the awaited store operation rejects; nothing of it is applied
StoreFails(c, at) ==
  /\ pc[c] = at
  /\ Reply(c, 500, "store")
  /\ UNCHANGED <<lessons, orders, req, found, idx, pre, searches, put>>

FindFail(c) == StoreFails(c, "find")
UpdateFail(c) == StoreFails(c, "update")
InsertFail(c) == StoreFails(c, "insert")

\* ------------------------------------------------- GET /api/search
\* the characters of the texts the catalog holds
Letters(t) ==
  CASE t = "French" -> <<"F", "r", "e", "n", "c", "h">>
    [] t = "Spanish" -> <<"S", "p", "a", "n", "i", "s", "h">>
    [] t = "PARIS" -> <<"P", "A", "R", "I", "S">>
    [] t = "MADRID" -> <<"M", "A", "D", "R", "I", "D">>

\* the location and the price of the seeded documents
LocationOf(o) == CASE toString(o) = "a" -> "PARIS" [] toString(o) = "b" -> "MADRID"
PriceOf(o) == 1800

\* the raw values of req.query.q: absent, or a string as its characters
NoQuery == [defined |-> FALSE, val |-> <<>>]
Query(t) == [defined |-> TRUE, val |-> t]
Queries ==
  {NoQuery} \cup
  {Query(t) : t \in {<<" ">>, <<" ", "r", "i", " ">>, <<"S", "P", "A", "N">>,
                     <<"z">>, <<"1">>, <<"1", "8", "0", "0">>}}

\* String.prototype.trim
RECURSIVE TrimLeft(_)
TrimLeft(t) == IF t # <<>> /\ Head(t) = " " THEN TrimLeft(Tail(t)) ELSE t
RECURSIVE TrimRight(_)
TrimRight(t) ==
  IF t # <<>> /\ t[Len(t)] = " " THEN TrimRight(SubSeq(t, 1, Len(t) - 1)) ELSE t
Trim(t) == TrimRight(TrimLeft(t))

\* line 60: (req.query.q || "").trim()
q(raw) == Trim(IF raw.defined THEN raw.val ELSE <<>>)

\* the "i" flag: letters compare by their lower case
Lower(ch) ==
  CASE ch = "A" -> "a" [] ch = "D" -> "d" [] ch = "F" -> "f" [] ch = "I" -> "i"
    [] ch = "M" -> "m" [] ch = "N" -> "n" [] ch = "P" -> "p" [] ch = "R" -> "r"
    [] ch = "S" -> "s" [] OTHER -> ch
LowerAll(t) == [i \in 1..Len(t) |-> Lower(t[i])]

\* new RegExp(q, "i") matched against a text: q occurs somewhere in it
regex(pat, t) ==
  \E i \in 0..(Len(t) - Len(pat)) :
    \A k \in 1..Len(pat) : LowerAll(t)[i + k] = LowerAll(pat)[k]

\* !isNaN(q) and Number(q), for a trimmed non-empty q of letters or digits
Digits == <<"0", "1", "2", "3", "4", "5", "6", "7", "8", "9">>
IsDigit(ch) == \E i \in 1..Len(Digits) : Digits[i] = ch
DigitValue(ch) == (CHOOSE i \in 1..Len(Digits) : Digits[i] = ch) - 1
NotNaN(t) == \A i \in 1..Len(t) : IsDigit(t[i])
RECURSIVE NumberOf(_)
NumberOf(t) ==
  IF t = <<>> THEN 0
  ELSE Len(Digits) * NumberOf(SubSeq(t, 1, Len(t) - 1)) + DigitValue(t[Len(t)])

Doc(o) ==
  [_id |-> o, title |-> lessons[o].title,
   availableInventory |-> lessons[o].availableInventory]

\* lines 63-65: the query document, applied to one lesson
query(t, doc) ==
  \/ regex(t, Letters(doc.title))
  \/ regex(t, Letters(LocationOf(doc._id)))
  \/ /\ NotNaN(t)
     /\ PriceOf(doc._id) = NumberOf(t) \/ doc.availableInventory = NumberOf(t)

\* a cursor that yields its first document only
toArrayFirst(docs) == IF docs = <<>> THEN docs ELSE <<docs[1]>>

\* cursor.toArray(): every document the cursor yields
toArray(docs) == docs

\* lines 61 and 67: the documents the find of the search selects
Selected(t) ==
  IF t = <<>> THEN {Doc(o) : o \in DOMAIN lessons}
  ELSE {doc \in {Doc(o) : o \in DOMAIN lessons} : query(t, doc)}

\* lines 58-72: a search is answered with the documents found
Search(raw) ==
  /\ \E docs \in Orderings(Selected(q(raw))) :
       LET e == [q |-> raw, results |-> toArray(docs)] IN
         searches' = IF searches # <<>> /\ searches[Len(searches)].q = raw
                       THEN <<searches[Len(searches)], e>>
                       ELSE <<e>>
  /\ UNCHANGED <<lessons, orders, pc, req, found, idx, resp, pre, put>>

\* ------------------------------------------------- PUT /api/lessons/:id
\* the bodies of a PUT: a title, an availableInventory, or both
FieldSets ==
  {[title |-> t, availableInventory |-> n] :
     t \in {NoString, String("Spanish")},
     n \in {NoNumber} \cup {Number(v) : v \in {-1, MaxCap + 1}}}
  \ {NoFields}

\* $set restricted to the title
SetTitleOnly(doc, fields) ==
  [doc EXCEPT !.title = IF fields.title.defined THEN fields.title.val ELSE @]

\* { $set: updatedFields } applied to a document
Set(doc, fields) ==
  [title |-> IF fields.title.defined THEN fields.title.val ELSE doc.title,
   availableInventory |-> IF fields.availableInventory.defined
                            THEN fields.availableInventory.val
                            ELSE doc.availableInventory]

\* findOneAndUpdate with upsert: true
findOneAndUpdateUpsert(ls, o, fields) ==
  [x \in DOMAIN ls \cup {o} |->
     IF x \in DOMAIN ls /\ x # o THEN ls[x]
     ELSE Set(IF o \in DOMAIN ls THEN ls[o]
              ELSE [title |-> "", availableInventory |-> 0], fields)]

\* lines 160-167: findOneAndUpdate({_id}, {$set}, {upsert: false}): the
\* collection afterwards
findOneAndUpdate(ls, o, fields) ==
  IF o \in DOMAIN ls THEN [ls EXCEPT ![o] = Set(@, fields)] ELSE ls

\* lines 155-181: the update is applied and answered: 404 when result.value
\* is null (no document matched), else the updated lesson
UpdateItem(id, fields) ==
  /\ lessons' = findOneAndUpdate(lessons, ObjectId(id), fields)
  /\ put' = [id |-> id, fields |-> fields,
             status |-> IF ObjectId(id) \in DOMAIN lessons THEN 200 ELSE 404]
  /\ searches' = <<>>
  /\ UNCHANGED <<orders, pc, req, found, idx, resp, pre>>

\* --------------------------------------------------------- specifications
\* concurrent requests, store operations may fail
Next ==
  \E c \in Calls :
    \/ \E b \in ConcRequests : Begin(c, b)
    \/ Find(c)
    \/ FindFail(c)
    \/ Update(c)
    \/ UpdateFail(c)
    \/ Insert(c)
    \/ InsertFail(c)

Spec == Init /\ [][Next]_vars

\* one request alone, no store failure
NextOne ==
  \/ \E b \in Requests : Begin("c1", b)
  \/ Find("c1")
  \/ Update("c1")
  \/ Insert("c1")

SpecOne == Init /\ [][NextOne]_vars

\* requests handled one at a time, no store failure
SerialBegin(c, b) ==
  /\ \A d \in Calls \ {c} : pc[d] \in {"idle", "done"}
  /\ Begin(c, b)

NextSerial ==
  \E c \in Calls :
    \/ \E b \in ConcRequests : SerialBegin(c, b)
    \/ Find(c)
    \/ Update(c)
    \/ Insert(c)

SpecSerial == Init /\ [][NextSerial]_vars

\* concurrent requests, no store failure
NextConc ==
  \E c \in Calls :
    \/ \E b \in ConcRequests : Begin(c, b)
    \/ Find(c)
    \/ Update(c)
    \/ Insert(c)

InitConc ==
  /\ Init
  /\ \A o \in DOMAIN lessons : lessons[o].availableInventory <= ConcCap

SpecConc == InitConc /\ [][NextConc]_vars

\* searches and updates of the catalog, no order
NextAdmin ==
  \/ \E raw \in Queries : Search(raw)
  \/ \E id \in IdStrings, fields \in FieldSets : UpdateItem(id, fields)

SpecAdmin == Init /\ [][NextAdmin]_vars

\* ------------------------------------------------------------ the claims
\* what the claims speak of: the request's identifiers, the number of units
\* it asks of an item, an item's stock in a collection
itemIDs(c) == req[c].lessonIDs.val
Units(s, x) == Cardinality({i \in 1..Len(s) : s[i] = x})
Stock(ls, id) == ls[ObjectId(id)].availableInventory
Alone(c) == \A d \in Calls \ {c} : pc[d] = "idle"
Untouched(c) == lessons = pre[c].lessons /\ Len(orders) = pre[c].orders
UpdateStep(c) == pc[c] = "update" /\ idx'[c] # idx[c]

\* C1: no lesson's availableInventory ever becomes negative, whatever the
\* interleaving of the concurrent orders.
C1_NoOversell ==
  \A o \in DOMAIN lessons : lessons[o].availableInventory >= 0

\* C2: when an order ends with any response but success, every lesson has
\* the availableInventory it had before the call and no order was inserted.
C2_FailureLeavesNoTrace ==
  \A c \in Calls :
    (pc[c] = "done" /\ resp[c].status # 200 /\ Alone(c)) => Untouched(c)

\* C3: an order asking of some stored lesson more units than it has is
\* answered 400 "Not enough spaces"; no lesson, also none of the lines that
\* could be served, is changed and no order is inserted.
C3_AtomicAcrossLines ==
  \A c \in Calls :
    ( /\ pc[c] # "idle"
      /\ ~MissingField(req[c])
      /\ \E f \in StoredIds : Units(itemIDs(c), f) > Stock(pre[c].lessons, f) )
    => /\ Untouched(c)
       /\ pc[c] \in {"find", "done"}
       /\ pc[c] = "done" => (resp[c].status = 400 /\ resp[c].error = "Not enough spaces")

C3_Witness ==
  \E c \in Calls :
    /\ pc[c] = "done" /\ resp[c].status = 400 /\ found[c] # <<>>
    /\ \E f, g \in StoredIds :
         /\ Units(itemIDs(c), f) > Stock(pre[c].lessons, f)
         /\ Units(itemIDs(c), g) >= 1
         /\ Units(itemIDs(c), g) <= Stock(pre[c].lessons, g)

\* C4 as stated: a lone order holding k >= 1 occurrences of a stored lesson F
\* that has at least k units succeeds, takes exactly k units from F, leaves
\* the lessons it does not name alone, and stores F's title k times.
C4_ExactDecrementOfAnyLine ==
  \A c \in Calls : \A f \in StoredIds :
    ( /\ pc[c] = "done"
      /\ ~MissingField(req[c])
      /\ Units(itemIDs(c), f) >= 1
      /\ Units(itemIDs(c), f) <= Stock(pre[c].lessons, f) )
    => /\ resp[c].status = 200
       /\ Stock(lessons, f) = Stock(pre[c].lessons, f) - Units(itemIDs(c), f)
       /\ \A g \in StoredIds :
            Units(itemIDs(c), g) = 0 => Stock(lessons, g) = Stock(pre[c].lessons, g)
       /\ Units(orders[resp[c].orderId].lessonNames, TitleOf(f)) = Units(itemIDs(c), f)

\* C4, amended: a lone order that asks of no stored lesson more units than it
\* has succeeds; each stored lesson F it names k times loses exactly k units,
\* the lessons it does not name are unchanged, and the stored order holds F's
\* title exactly k times.
C4_ExactDecrement ==
  \A c \in Calls :
    ( /\ pc[c] = "done"
      /\ ~MissingField(req[c])
      /\ \A g \in StoredIds : Units(itemIDs(c), g) <= Stock(pre[c].lessons, g) )
    => /\ resp[c].status = 200
       /\ Len(orders) = pre[c].orders + 1
       /\ \A f \in StoredIds :
            /\ Stock(lessons, f) = Stock(pre[c].lessons, f) - Units(itemIDs(c), f)
            /\ Units(orders[resp[c].orderId].lessonNames, TitleOf(f)) = Units(itemIDs(c), f)

C4_Witness ==
  \E c \in Calls : \E f, g \in StoredIds :
    /\ pc[c] = "done" /\ resp[c].status = 200
    /\ f # g
    /\ Units(itemIDs(c), f) = 2 /\ Units(itemIDs(c), g) = 0
    /\ Stock(lessons, f) = Stock(pre[c].lessons, f) - 2
    /\ Stock(lessons, g) > 0

\* C5: a request in which one of the eight fields is absent or empty is
\* answered 400 "All fields are required." and touches the store in no way.
AbsentOrEmpty(b) ==
  \/ \E f \in {b.name, b.phoneNumber, b.address, b.city, b.state, b.zip} :
       ~f.defined \/ f.val = ""
  \/ ~b.lessonIDs.defined \/ b.lessonIDs.val = <<>>
  \/ ~b.numberOfSpaces.defined

C5_ValidationComplete ==
  \A c \in Calls :
    (pc[c] # "idle" /\ AbsentOrEmpty(req[c]))
    => /\ pc[c] = "done"
       /\ resp[c].status = 400 /\ resp[c].error = "All fields are required."
       /\ found[c] = <<>>
       /\ Untouched(c)

\* C6: an order naming an identifier of no stored lesson fails: it changes no
\* lesson and inserts no order, whatever its other lines are.
C6_UnknownIdFails ==
  \A c \in Calls :
    (pc[c] = "done" /\ ~MissingField(req[c]) /\ Units(itemIDs(c), UnknownId) >= 1)
    => (resp[c].status # 200 /\ Untouched(c))

\* C7: an order whose lessonIDs is the empty array is answered with an error
\* and inserts no order.
C7_EmptyOrderRejected ==
  \A c \in Calls :
    (pc[c] = "done" /\ req[c].lessonIDs = Array(<<>>))
    => (resp[c].status \in {400, 500} /\ Len(orders) = pre[c].orders)

\* C8: when the second update of a two-line order finds less stock than the
\* line needs (a concurrent order took it), that update is not applied, the
\* first line's units are given back and the call ends in failure.
C8_CompensationOnConflict ==
  [][\A c \in Calls :
       ( /\ UpdateStep(c)
         /\ Len(found[c]) = 2 /\ idx[c] = 2
         /\ lessons[found[c][2]._id].availableInventory < needed(c, found[c][2]) )
       => /\ lessons'[found[c][2]._id] = lessons[found[c][2]._id]
          /\ lessons'[found[c][1]._id].availableInventory =
               lessons[found[c][1]._id].availableInventory + needed(c, found[c][1])
          /\ pc'[c] = "done" /\ resp'[c].status # 200]_vars

\* C9: an update by n is applied exactly when the lesson's stored
\* availableInventory at that instant is at least n; otherwise nothing is
\* written and the call is told of the conflict.
C9_ConditionalDecrement ==
  [][\A c \in Calls :
       UpdateStep(c) =>
         LET o == found[c][idx[c]]._id
             n == needed(c, found[c][idx[c]])
         IN IF lessons[o].availableInventory >= n
              THEN lessons'[o].availableInventory = lessons[o].availableInventory - n
              ELSE lessons' = lessons /\ resp'[c].status \notin {0, 200}]_vars

\* C10: the stored order's lessonNames has, at every position i, the title
\* of the lesson lessonIDs[i] of the request.
C10_TitlesFollowRequest ==
  \A c \in Calls :
    ( /\ pc[c] = "done" /\ resp[c].status = 200
      /\ \A i \in 1..Len(itemIDs(c)) : itemIDs(c)[i] \in StoredIds )
    => orders[resp[c].orderId].lessonNames =
         [i \in 1..Len(itemIDs(c)) |-> lessons[ObjectId(itemIDs(c)[i])].title]

\* the stock the catalog started with: the first request to arrive saw it,
\* and no order ever raises a stock
Begun == {c \in Calls : pc[c] # "idle"}
InitStock(f) ==
  CHOOSE n \in {Stock(pre[c].lessons, f) : c \in Begun} :
    \A c \in Begun : Stock(pre[c].lessons, f) <= n

RECURSIVE UnitsOf(_, _)
UnitsOf(S, f) ==
  IF S = {} THEN 0
  ELSE LET c == CHOOSE d \in S : TRUE
       IN Units(itemIDs(c), f) + UnitsOf(S \ {c}, f)

Succeeded == {c \in Calls : resp[c].status = 200}

\* C12: every stored order's numberOfSpaces is the number of identifiers in
\* the lessonIDs of the request that created it.
C12_SpacesMatchUnits ==
  \A c \in Calls :
    (pc[c] = "done" /\ resp[c].status = 200)
    => orders[resp[c].orderId].numberOfSpaces = Len(itemIDs(c))

\* C14: two orders with equal bodies that both succeed leave two order
\* documents and take from each stored lesson twice the units one asks for.
C14_NotDeduplicated ==
  \A c, d \in Calls :
    ( /\ c # d
      /\ resp[c].status = 200 /\ resp[d].status = 200
      /\ req[c] = req[d] )
    => /\ resp[c].orderId # resp[d].orderId
       /\ Len(orders) >= 2
       /\ orders[resp[c].orderId] = order(c) /\ orders[resp[d].orderId] = order(d)
       /\ \A f \in StoredIds :
            Stock(lessons, f) = InitStock(f) - 2 * Units(itemIDs(c), f)

C14_Witness ==
  \E c, d \in Calls :
    /\ c # d /\ req[c] = req[d]
    /\ resp[c].status = 200 /\ resp[d].status = 200
    /\ \E f \in StoredIds :
         Units(itemIDs(c), f) >= 1 /\ Stock(lessons, f) = InitStock(f) - 2

\* C16: the map built from lessonIDs has one entry per distinct identifier,
\* holding the number of its occurrences; the counts add up to the length of
\* lessonIDs; while it is built nothing of the store is read or written.
RECURSIVE SumN(_, _)
SumN(m, i) == IF i > Len(m) THEN 0 ELSE m[i].n + SumN(m, i + 1)

C16_DemandMapCounts ==
  \A c \in Calls :
    (pc[c] # "idle" /\ ~MissingField(req[c])) =>
      LET m == lessonCountMap(itemIDs(c)) IN
        /\ \A i, j \in 1..Len(m) : m[i].id = m[j].id => i = j
        /\ \A i \in 1..Len(m) : m[i].n = Units(itemIDs(c), m[i].id) /\ m[i].n >= 1
        /\ \A k \in 1..Len(itemIDs(c)) : \E i \in 1..Len(m) : m[i].id = itemIDs(c)[k]
        /\ SumN(m, 1) = Len(itemIDs(c))
        /\ pc[c] = "find" => (Untouched(c) /\ found[c] = <<>>)

C16_Witness ==
  \E c \in Calls :
    /\ pc[c] = "find"
    /\ Len(lessonCountMap(itemIDs(c))) = 2
    /\ \E i \in 1..2 : lessonCountMap(itemIDs(c))[i].n = 2

\* C17: with the orders handled one after the other and no store failure,
\* every lesson's availableInventory is at least 0 in every state.
C17_SerialNeverNegative ==
  \A f \in StoredIds : Stock(lessons, f) >= 0

C17_Witness ==
  /\ \A c \in Calls : pc[c] = "done" /\ resp[c].status = 200
  /\ \E f \in StoredIds :
       /\ Stock(lessons, f) = 0
       /\ \A c \in Calls : Units(itemIDs(c), f) >= 1

\* C18: when every call has finished and no store operation failed, each
\* lesson's availableInventory is its initial value less the units the
\* successful calls asked of it.
C18_NoLostUpdate ==
  ( /\ \A c \in Calls : pc[c] = "done"
    /\ \A c \in Calls : resp[c].status # 500 )
  => \A f \in StoredIds :
       Stock(lessons, f) = InitStock(f) - UnitsOf(Succeeded, f)

C18_Witness ==
  /\ \A c \in Calls : pc[c] = "done" /\ resp[c].status = 200
  /\ \E f \in StoredIds :
       /\ \A c \in Calls : Units(itemIDs(c), f) >= 1 /\ Stock(pre[c].lessons, f) = InitStock(f)
       /\ Stock(lessons, f) < 0

\* C19: every stored order is that of a call whose availability loop passed
\* on every found lesson and whose updates were all applied before.
Recorded == {c \in Calls : resp[c].orderId # 0}

C19_OrderAfterDecrements ==
  /\ \A k \in 1..Len(orders) : \E c \in Recorded : resp[c].orderId = k
  /\ \A c \in Recorded :
       /\ pc[c] = "done"
       /\ ~Rejected(c, found[c])
       /\ idx[c] = Len(found[c]) + 1
  /\ Recorded # {} =>
       \A f \in StoredIds : InitStock(f) - Stock(lessons, f) >= UnitsOf(Recorded, f)

C19_Witness ==
  \E c \in Recorded : \E d \in Calls :
    /\ Len(found[c]) = 2
    /\ pc[d] = "update"

\* C20: a stored order's lessonNames is as long as the number of units its
\* call took from the lessons, also when the request names identifiers of no
\* lesson.
RECURSIVE Taken(_, _)
Taken(c, S) ==
  IF S = {} THEN 0
  ELSE LET f == CHOOSE g \in S : TRUE
       IN (Stock(pre[c].lessons, f) - Stock(lessons, f)) + Taken(c, S \ {f})

C20_NamesCountUnitsTaken ==
  \A c \in Calls :
    (pc[c] = "done" /\ resp[c].status = 200)
    => Len(orders[resp[c].orderId].lessonNames) = Taken(c, StoredIds)

C20_Witness ==
  \E c \in Calls :
    /\ pc[c] = "done" /\ resp[c].status = 200
    /\ Units(itemIDs(c), UnknownId) >= 1
    /\ Len(orders[resp[c].orderId].lessonNames) = 2

\* C11: a search changes no lesson and no order, and two searches in a row
\* for the same q, with no change of the catalog between them, are answered
\* with the same set of documents.
Range(t) == {t[i] : i \in 1..Len(t)}

C13_UpdateOfUnknownIs404 ==
  [][(put' # put /\ ObjectId(put'.id) \notin DOMAIN lessons) =>
       /\ put'.status = 404
       /\ lessons' = lessons
       /\ orders' = orders]_vars

C13_Witness ==
  /\ put.status = 404
  /\ put.id = UnknownId
  /\ put.fields.availableInventory.defined

\* C15: a PUT that carries availableInventory for a stored lesson stores that
\* value, whatever it is; so negative stock and stock above the initial
\* capacity are reached with no order placed.
C15_UpdateOverwritesStock ==
  (put.status = 200 /\ put.fields.availableInventory.defined)
  => Stock(lessons, put.id) = put.fields.availableInventory.val

C15_Witness ==
  /\ orders = <<>> /\ \A c \in Calls : pc[c] = "idle"
  /\ \E f, g \in StoredIds : Stock(lessons, f) < 0 /\ Stock(lessons, g) > MaxCap

====
